---- MODULE Spec2Model ----
(***************************************************************************)
(* The translation session of frontend/src/App.js: the React state of the  *)
(* App component, its event handlers, and the continuations of its fetch   *)
(* calls.  One action is one handler run (React batches the setters of a   *)
(* handler into one commit) or one continuation run after an await.        *)
(***************************************************************************)
EXTENDS Integers, Sequences

VARIABLES
    sourceText,           \* useState('')      App.js:5
    translation,          \* useState(null)    App.js:6
    fromLang,             \* useState('tr')    App.js:7
    toLang,               \* useState('en')    App.js:8
    languages,            \* useState({})      App.js:9
    loading,              \* useState(false)   App.js:10
    history,              \* useState([])      App.js:11
    showHistory,          \* useState(false)   App.js:12
    selectedAlternative,  \* useState('')      App.js:13
    error,                \* useState('')      App.js:14
    pending,              \* POST /api/translate calls awaiting their response
    langPending,          \* GET /api/languages awaiting its response
    histPending,          \* GET /api/history calls awaiting their response
    clearPending,         \* DELETE /api/history calls awaiting their response
    prior                 \* the result held when the last submit was accepted

vars == <<sourceText, translation, fromLang, toLang, languages, loading,
          history, showHistory, selectedAlternative, error,
          pending, langPending, histPending, clearPending, prior>>

network == <<pending, langPending, histPending, clearPending, prior>>

----------------------------------------------------------------------------
(* Bounds of the model. *)

MaxCalls == 2         \* fetch calls awaiting their response at once

----------------------------------------------------------------------------
(* Strings.  A text is a run-length encoded string: a sequence of          *)
(* <<character, count>> runs, so that a 5001 character text is one run.    *)

MaxChars == 5000

Run(c, n) == <<c, n>>

EmptyText == <<>>
BlankText == <<Run(" ", 2)>>
Merhaba   == <<Run(" ", 1), Run("m", 7)>>
Hello     == <<Run("h", 5)>>
Hi        == <<Run("i", 2)>>
LongText  == <<Run("z", MaxChars + 1)>>

RECURSIVE Length(_)
Length(t) == IF t = <<>> THEN 0 ELSE Head(t)[2] + Length(Tail(t))

IsSpace(run) == run[1] = " "

RECURSIVE TrimStart(_)
TrimStart(t) ==
    IF t = <<>> THEN <<>>
    ELSE IF IsSpace(Head(t)) THEN TrimStart(Tail(t)) ELSE t

RECURSIVE TrimEnd(_)
TrimEnd(t) ==
    IF t = <<>> THEN <<>>
    ELSE IF IsSpace(t[Len(t)]) THEN TrimEnd(SubSeq(t, 1, Len(t) - 1)) ELSE t

Trim(t) == TrimEnd(TrimStart(t))

Truthy(t) == t # EmptyText

----------------------------------------------------------------------------
(* Values the collaborators hand to the session. *)

Null == [null |-> TRUE]

Codes == {"tr", "en"}
Catalog == [c \in Codes |-> IF c = "tr" THEN "Turkce" ELSE "English"]
NoLanguages == <<>>

Alt(t, c, e) == [translation |-> t, context |-> c, explanation |-> e]

Record(i, t, f, g, m, a) ==
    [id |-> i, text |-> t, from_lang |-> f, to_lang |-> g,
     main_translation |-> m, alternatives |-> a]

Item1 == Record(1, Merhaba, "tr", "en", Hello, <<Alt(Hi, "informal", "casual greeting")>>)
Item2 == Record(2, LongText, "en", "tr", Merhaba, <<>>)

HistoryLists == {<<>>, <<Item1>>, <<Item2, Item1>>}

TypableTexts == {t \in {EmptyText, BlankText, Merhaba} : Length(t) <= MaxChars}

(* Messages of the session. *)
MsgEmptyText  == "Lutfen cevrilecek metni girin"
MsgSamePair   == "Kaynak ve hedef dil ayni olamaz"
MsgTooLong    == "Metin cok uzun (maksimum 5000 karakter)"
MsgLanguages  == "Dil listesi yuklenirken hata olustu"
MsgFallback   == "Ceviri basarisiz"
MsgDetail     == "Translation quota exceeded"
MsgTransport  == "Failed to fetch"

ValidationMessages == {MsgEmptyText, MsgSamePair, MsgTooLong}

----------------------------------------------------------------------------
(* A translate call in flight.  The continuation that awaits it reads     *)
(* nothing of the submit that sent it, and the service answers as it       *)
(* likes, so the call is kept without its body.  stale is bookkeeping of   *)
(* the model: the session moved on (a later submit was accepted or a       *)
(* history record was loaded) after the call was sent.                     *)

Request == [stale |-> FALSE]

Outdated(reqs) == [k \in 1..Len(reqs) |-> [reqs[k] EXCEPT !.stale = TRUE]]

Without(reqs, k) == SubSeq(reqs, 1, k - 1) \o SubSeq(reqs, k + 1, Len(reqs))

(* What the service answers to a translate call: the record it stored. *)
Responses == {Item1, Item2}

(* How a translate call fails, and the message the catch block receives:   *)
(* a non-ok response with or without a detail, and any error the runtime   *)
(* throws (a rejected fetch, a body that is no JSON), whose message is the *)
(* runtime's.                                                              *)
Failures == {[kind |-> "http", detail |-> MsgDetail],
             [kind |-> "http", detail |-> ""],
             [kind |-> "network", detail |-> ""]}

FailureMessage(f) ==
    CASE f.kind = "http"    -> IF f.detail # "" THEN f.detail ELSE MsgFallback
      [] f.kind = "network" -> MsgTransport

----------------------------------------------------------------------------
(* History list calls in flight: old counts those sent before the clear    *)
(* that is outstanding or was the last to end was started, new those sent  *)
(* after it.  emptied holds from the moment clearHistory empties the list  *)
(* until a list response is stored.                                        *)
HistInFlight == histPending.new + histPending.old

CallsInFlight ==
    Len(pending) + HistInFlight + clearPending + (IF langPending THEN 1 ELSE 0)

Init ==
    /\ sourceText = EmptyText
    /\ translation = Null
    /\ fromLang = "tr"
    /\ toLang = "en"
    /\ languages = NoLanguages
    /\ loading = FALSE
    /\ history = <<>>
    /\ showHistory = FALSE
    /\ selectedAlternative = EmptyText
    /\ error = ""
    /\ pending = <<>>
    /\ langPending = TRUE
    /\ histPending = [new |-> 1, old |-> 0, emptied |-> FALSE]
    /\ clearPending = 0
    /\ prior = Null

ValidationErrorNoLength(text, from, to) ==
    IF ~Truthy(Trim(text)) THEN MsgEmptyText
    ELSE IF from = to THEN MsgSamePair
    ELSE ""

ValidationErrorNoPair(text, from, to) ==
    IF ~Truthy(Trim(text)) THEN MsgEmptyText
    ELSE IF Length(text) > MaxChars THEN MsgTooLong
    ELSE ""

ValidationErrorNeedsCatalog(text, from, to) ==
    IF ~Truthy(Trim(text)) THEN MsgEmptyText
    ELSE IF from = to THEN MsgSamePair
    ELSE IF Length(text) > MaxChars THEN MsgTooLong
    ELSE IF from \notin DOMAIN languages THEN MsgLanguages
    ELSE ""

(* The checks of handleTranslate, in the order of the code: the message of *)
(* the first one that fails, "" when the submit is accepted.               *)
ValidationError(text, from, to) ==
    IF ~Truthy(Trim(text)) THEN MsgEmptyText
    ELSE IF from = to THEN MsgSamePair
    ELSE IF Length(text) > MaxChars THEN MsgTooLong
    ELSE ""

(* The translate button is disabled while loading or while the text is     *)
(* blank; the Ctrl/Cmd+Enter listener calls handleTranslate directly.      *)
ButtonEnabled == ~(loading \/ ~Truthy(Trim(sourceText)))

HandleTranslate ==
    /\ LET msg == ValidationError(sourceText, fromLang, toLang) IN
       IF msg # ""
       THEN /\ error' = msg
            /\ UNCHANGED <<loading, translation, pending, prior>>
       ELSE /\ CallsInFlight < MaxCalls
            /\ loading' = TRUE
            /\ error' = ""
            /\ translation' = Null
            /\ pending' = Append(Outdated(pending), Request)
            /\ prior' = translation
    /\ UNCHANGED <<sourceText, fromLang, toLang, languages, history,
                   showHistory, selectedAlternative,
                   langPending, histPending, clearPending>>

(* A click on the translate button. *)
ClickTranslate == ButtonEnabled /\ HandleTranslate

(* Ctrl+Enter or Cmd+Enter anywhere in the document. *)
HandleKeyPress == HandleTranslate

TranslateSuccessWritesHistory(k, data) ==
    /\ k \in 1..Len(pending)
    /\ translation' = data
    /\ selectedAlternative' = data.main_translation
    /\ histPending' = [histPending EXCEPT !.new = @ + 1]
    /\ history' = <<>>
    /\ loading' = FALSE
    /\ pending' = Without(pending, k)
    /\ UNCHANGED <<sourceText, fromLang, toLang, languages,
                   showHistory, error, langPending, clearPending, prior>>

(* The continuation of handleTranslate after a successful response. *)
TranslateSuccess(k, data) ==
    /\ k \in 1..Len(pending)
    /\ translation' = data
    /\ selectedAlternative' = data.main_translation
    /\ histPending' = [histPending EXCEPT !.new = @ + 1]
    /\ loading' = FALSE
    /\ pending' = Without(pending, k)
    /\ UNCHANGED <<sourceText, fromLang, toLang, languages, history,
                   showHistory, error, langPending, clearPending, prior>>

TranslateFailKeepsLoading(k, f) ==
    /\ k \in 1..Len(pending)
    /\ error' = FailureMessage(f)
    /\ pending' = Without(pending, k)
    /\ UNCHANGED <<sourceText, translation, fromLang, toLang, languages,
                   loading, history, showHistory, selectedAlternative,
                   langPending, histPending, clearPending, prior>>

TranslateFailClearsResult(k, f) ==
    /\ k \in 1..Len(pending)
    /\ error' = FailureMessage(f)
    /\ loading' = FALSE
    /\ translation' = Null
    /\ pending' = Without(pending, k)
    /\ UNCHANGED <<sourceText, fromLang, toLang, languages,
                   history, showHistory, selectedAlternative,
                   langPending, histPending, clearPending, prior>>

TranslateFailNoFallback(k, f) ==
    /\ k \in 1..Len(pending)
    /\ error' = f.detail
    /\ loading' = FALSE
    /\ pending' = Without(pending, k)
    /\ UNCHANGED <<sourceText, translation, fromLang, toLang, languages,
                   history, showHistory, selectedAlternative,
                   langPending, histPending, clearPending, prior>>

(* The continuation of handleTranslate when the call throws. *)
TranslateFail(k, f) ==
    /\ k \in 1..Len(pending)
    /\ error' = FailureMessage(f)
    /\ loading' = FALSE
    /\ pending' = Without(pending, k)
    /\ UNCHANGED <<sourceText, translation, fromLang, toLang, languages,
                   history, showHistory, selectedAlternative,
                   langPending, histPending, clearPending, prior>>

SwapLanguagesKeepsText ==
    /\ fromLang' = toLang
    /\ toLang' = fromLang
    /\ IF translation # Null
       THEN /\ translation' = Null
            /\ selectedAlternative' = EmptyText
            /\ UNCHANGED sourceText
       ELSE UNCHANGED <<sourceText, translation, selectedAlternative>>
    /\ UNCHANGED <<languages, loading, history, showHistory, error, network>>

(* The fields swapLanguages reads and writes. *)
SwapFields ==
    [sourceText |-> sourceText, translation |-> translation,
     fromLang |-> fromLang, toLang |-> toLang,
     selectedAlternative |-> selectedAlternative]

SwappedNoTemp(s) ==
    IF s.translation # Null
    THEN [s EXCEPT !.fromLang = s.toLang, !.toLang = s.toLang,
                   !.sourceText = s.selectedAlternative,
                   !.translation = Null,
                   !.selectedAlternative = EmptyText]
    ELSE [s EXCEPT !.fromLang = s.toLang, !.toLang = s.toLang]

SwappedAlwaysMovesText(s) ==
    [s EXCEPT !.fromLang = s.toLang, !.toLang = s.fromLang,
              !.sourceText = s.selectedAlternative,
              !.translation = Null,
              !.selectedAlternative = EmptyText]

(* What swapLanguages makes of those fields. *)
Swapped(s) ==
    IF s.translation # Null
    THEN [s EXCEPT !.fromLang = s.toLang, !.toLang = s.fromLang,
                   !.sourceText = s.selectedAlternative,
                   !.translation = Null,
                   !.selectedAlternative = EmptyText]
    ELSE [s EXCEPT !.fromLang = s.toLang, !.toLang = s.fromLang]

SwapLanguages ==
    /\ LET s == Swapped(SwapFields) IN
       /\ fromLang' = s.fromLang
       /\ toLang' = s.toLang
       /\ sourceText' = s.sourceText
       /\ translation' = s.translation
       /\ selectedAlternative' = s.selectedAlternative
    /\ UNCHANGED <<languages, loading, history, showHistory, error, network>>

LoadHistoryItemKeepsOutput(k) ==
    /\ showHistory
    /\ k \in 1..Len(history)
    /\ LET item == history[k] IN
       /\ sourceText' = item.text
       /\ fromLang' = item.from_lang
       /\ toLang' = item.to_lang
       /\ translation' = item
    /\ showHistory' = FALSE
    /\ pending' = Outdated(pending)
    /\ UNCHANGED <<languages, loading, history, error, selectedAlternative,
                   langPending, histPending, clearPending, prior>>

(* A click on a row of the history list, shown while showHistory holds. *)
LoadHistoryItem(k) ==
    /\ showHistory
    /\ k \in 1..Len(history)
    /\ LET item == history[k] IN
       /\ sourceText' = item.text
       /\ fromLang' = item.from_lang
       /\ toLang' = item.to_lang
       /\ translation' = item
       /\ selectedAlternative' = item.main_translation
    /\ showHistory' = FALSE
    /\ pending' = Outdated(pending)
    /\ UNCHANGED <<languages, loading, history, error,
                   langPending, histPending, clearPending, prior>>

EditTextClearsError(t) ==
    /\ t \in TypableTexts
    /\ sourceText' = t
    /\ error' = ""
    /\ UNCHANGED <<translation, fromLang, toLang, languages, loading, history,
                   showHistory, selectedAlternative, network>>

(* onChange of the textarea, whose maxLength caps what can be typed. *)
EditText(t) ==
    /\ t \in TypableTexts
    /\ sourceText' = t
    /\ UNCHANGED <<translation, fromLang, toLang, languages, loading, history,
                   showHistory, selectedAlternative, error, network>>

(* onChange of the two selects, whose options are the catalog's codes. *)
EditFrom(c) ==
    /\ c \in DOMAIN languages
    /\ fromLang' = c
    /\ UNCHANGED <<sourceText, translation, toLang, languages, loading, history,
                   showHistory, selectedAlternative, error, network>>

EditTo(c) ==
    /\ c \in DOMAIN languages
    /\ toLang' = c
    /\ UNCHANGED <<sourceText, translation, fromLang, languages, loading, history,
                   showHistory, selectedAlternative, error, network>>

(* The cards are rendered while a result with alternatives is held. *)
CardsShown == translation # Null /\ Len(translation.alternatives) > 0

SelectMain ==
    /\ CardsShown
    /\ selectedAlternative' = translation.main_translation
    /\ UNCHANGED <<sourceText, translation, fromLang, toLang, languages, loading,
                   history, showHistory, error, network>>

SelectAltPromotes(k) ==
    /\ CardsShown
    /\ k \in 1..Len(translation.alternatives)
    /\ selectedAlternative' = translation.alternatives[k].translation
    /\ translation' = [translation EXCEPT
           !.main_translation = translation.alternatives[k].translation]
    /\ UNCHANGED <<sourceText, fromLang, toLang, languages, loading,
                   history, showHistory, error, network>>

SelectAlt(k) ==
    /\ CardsShown
    /\ k \in 1..Len(translation.alternatives)
    /\ selectedAlternative' = translation.alternatives[k].translation
    /\ UNCHANGED <<sourceText, translation, fromLang, toLang, languages, loading,
                   history, showHistory, error, network>>

ToggleHistory ==
    /\ showHistory' = ~showHistory
    /\ UNCHANGED <<sourceText, translation, fromLang, toLang, languages, loading,
                   history, selectedAlternative, error, network>>

(* fetchLanguages after its await. *)
FetchLanguagesDone ==
    /\ langPending
    /\ langPending' = FALSE
    /\ languages' = Catalog
    /\ UNCHANGED <<sourceText, translation, fromLang, toLang, loading, history,
                   showHistory, selectedAlternative, error,
                   pending, histPending, clearPending, prior>>

FetchLanguagesFail ==
    /\ langPending
    /\ langPending' = FALSE
    /\ error' = MsgLanguages
    /\ UNCHANGED <<sourceText, translation, fromLang, toLang, languages, loading,
                   history, showHistory, selectedAlternative,
                   pending, histPending, clearPending, prior>>

(* fetchHistory after its awaits; age is "new" or "old".  An error response *)
(* whose JSON body has no translations is the empty list here.             *)
FetchHistoryDone(age, list) ==
    /\ histPending[age] > 0
    /\ histPending' = [histPending EXCEPT ![age] = @ - 1, !.emptied = FALSE]
    /\ history' = list
    /\ UNCHANGED <<sourceText, translation, fromLang, toLang, languages, loading,
                   showHistory, selectedAlternative, error,
                   pending, langPending, clearPending, prior>>

FetchHistoryFailEmpties(age) ==
    /\ histPending[age] > 0
    /\ histPending' = [histPending EXCEPT ![age] = @ - 1]
    /\ history' = <<>>
    /\ UNCHANGED <<sourceText, translation, fromLang, toLang, languages, loading,
                   showHistory, selectedAlternative, error,
                   pending, langPending, clearPending, prior>>

(* fetchHistory when the fetch or the parse of the body throws. *)
FetchHistoryFail(age) ==
    /\ histPending[age] > 0
    /\ histPending' = [histPending EXCEPT ![age] = @ - 1]
    /\ UNCHANGED <<sourceText, translation, fromLang, toLang, languages, loading,
                   history, showHistory, selectedAlternative, error,
                   pending, langPending, clearPending, prior>>

ClearHistoryOptimistic ==
    /\ Len(history) > 0
    /\ CallsInFlight < MaxCalls
    /\ clearPending' = clearPending + 1
    /\ histPending' = IF clearPending = 0
                      THEN [new |-> 0, old |-> HistInFlight, emptied |-> FALSE]
                      ELSE histPending
    /\ history' = <<>>
    /\ UNCHANGED <<sourceText, translation, fromLang, toLang, languages, loading,
                   showHistory, selectedAlternative, error,
                   pending, langPending, prior>>

(* clearHistory up to its await: the button is rendered while the list is  *)
(* not empty.                                                              *)
ClearHistory ==
    /\ Len(history) > 0
    /\ CallsInFlight < MaxCalls
    /\ clearPending' = clearPending + 1
    /\ histPending' = IF clearPending = 0
                      THEN [new |-> 0, old |-> HistInFlight, emptied |-> FALSE]
                      ELSE histPending
    /\ UNCHANGED <<sourceText, translation, fromLang, toLang, languages, loading,
                   history, showHistory, selectedAlternative, error,
                   pending, langPending, prior>>

(* clearHistory after its await, when fetch resolved: with any status, as  *)
(* response.ok is not looked at.                                           *)
ClearDone ==
    /\ clearPending > 0
    /\ clearPending' = clearPending - 1
    /\ history' = <<>>
    /\ histPending' = [histPending EXCEPT !.emptied = TRUE]
    /\ UNCHANGED <<sourceText, translation, fromLang, toLang, languages, loading,
                   showHistory, selectedAlternative, error,
                   pending, langPending, prior>>

(* clearHistory when fetch rejected. *)
ClearFail ==
    /\ clearPending > 0
    /\ clearPending' = clearPending - 1
    /\ UNCHANGED <<sourceText, translation, fromLang, toLang, languages, loading,
                   history, showHistory, selectedAlternative, error,
                   pending, langPending, histPending, prior>>

Next ==
    \/ ClickTranslate
    \/ HandleKeyPress
    \/ \E k \in 1..Len(pending), data \in Responses : TranslateSuccess(k, data)
    \/ \E k \in 1..Len(pending), f \in Failures : TranslateFail(k, f)
    \/ SwapLanguages
    \/ \E k \in 1..Len(history) : LoadHistoryItem(k)
    \/ \E t \in TypableTexts : EditText(t)
    \/ \E c \in Codes : EditFrom(c)
    \/ \E c \in Codes : EditTo(c)
    \/ SelectMain
    \/ \E k \in 1..1 : SelectAlt(k)
    \/ ToggleHistory
    \/ FetchLanguagesDone
    \/ FetchLanguagesFail
    \/ \E age \in {"new", "old"}, list \in HistoryLists : FetchHistoryDone(age, list)
    \/ \E age \in {"new", "old"} : FetchHistoryFail(age)
    \/ ClearHistory
    \/ ClearDone
    \/ ClearFail

Spec == Init /\ [][Next]_vars

----------------------------------------------------------------------------
(* The phases of the session, read off the fields the component renders:   *)
(* the spinner while loading, else the error banner, else the result.      *)

PhaseLoading == loading
PhaseError   == ~loading /\ error # ""
PhaseResult  == ~loading /\ error = "" /\ translation # Null
PhaseIdle    == ~loading /\ error = "" /\ translation = Null

Submit == ClickTranslate \/ HandleKeyPress

BadText(t) == ~Truthy(Trim(t)) \/ Length(t) > MaxChars

----------------------------------------------------------------------------
(* C1: at most one translate call is in flight for the session in every    *)
(* reachable state; a submit while loading sends nothing.                  *)
C1_OneRequestInFlight == Len(pending) <= 1

(* C2: a submit whose text is empty, whitespace-only or longer than 5000   *)
(* characters sends no translate call and leaves a non-empty validation    *)
(* message in error, in whatever state it is called.                       *)
C2_BadTextRejected ==
    [][(Submit /\ BadText(sourceText)) =>
          /\ pending' = pending
          /\ error' \in ValidationMessages
          /\ error' # ""]_vars

C2_Witness ==
    /\ loading
    /\ Length(sourceText) > MaxChars
    /\ error = MsgTooLong

(* C3: a submit whose source code equals its target code sends no          *)
(* translate call and leaves a validation message in error, whether or not *)
(* the text is valid.                                                      *)
C3_SamePairRejected ==
    [][(Submit /\ fromLang = toLang) =>
          /\ pending' = pending
          /\ error' \in ValidationMessages]_vars

C3_Witness ==
    /\ fromLang = toLang
    /\ ~BadText(sourceText)
    /\ error = MsgSamePair

(* C4 as claimed: when the current translate call fails, the result that   *)
(* was held when its submit was accepted is still held.                    *)
C4_PriorResultStillHeld ==
    [][\A k \in 1..Len(pending), f \in Failures :
          (TranslateFail(k, f) /\ ~pending[k].stale /\ prior # Null)
              => translation' = prior]_vars

(* C4 as amended: the failure continuation leaves the result and the       *)
(* selected output as they were just before it ran, and it is the accepted *)
(* submit that clears the result held before.                              *)
C4_FailureKeepsResultField ==
    [][/\ \A k \in 1..Len(pending), f \in Failures :
             TranslateFail(k, f) =>
                 /\ translation' = translation
                 /\ selectedAlternative' = selectedAlternative
       /\ (Submit /\ ValidationError(sourceText, fromLang, toLang) = "")
             => translation' = Null]_vars

C4_Witness ==
    /\ PhaseError
    /\ error = MsgFallback
    /\ prior # Null
    /\ translation = Null

(* C5: loadHistoryItem, in any phase, sends nothing and leaves the session *)
(* in phase Result holding the record, with the text, the pair and the     *)
(* selected output of the record.                                          *)
C5_LoadYieldsResultPhase ==
    [][\A k \in 1..Len(history) :
          LoadHistoryItem(k) =>
              /\ CallsInFlight' = CallsInFlight
              /\ PhaseResult'
              /\ translation' = history[k]
              /\ sourceText' = history[k].text
              /\ fromLang' = history[k].from_lang
              /\ toLang' = history[k].to_lang
              /\ selectedAlternative' = history[k].main_translation]_vars

(* C6: the response of a translate call that is older than the session's   *)
(* current one changes neither the result nor the selected output.         *)
C6_StaleResponseDiscarded ==
    [][\A k \in 1..Len(pending), data \in Responses :
          (TranslateSuccess(k, data) /\ pending[k].stale) =>
              /\ translation' = translation
              /\ selectedAlternative' = selectedAlternative]_vars

(* C7: a successful response stores the result, ends in phase Result and   *)
(* selects the result's main translation.                                  *)
C7_SuccessYieldsResultPhase ==
    [][\A k \in 1..Len(pending), data \in Responses :
          TranslateSuccess(k, data) =>
              /\ translation' = data
              /\ selectedAlternative' = data.main_translation
              /\ PhaseResult']_vars

(* C8: a failed translate call ends in phase Error with a non-empty        *)
(* message: the detail of the service when it gave one, else a generic     *)
(* message.                                                                *)
GenericMessages == {MsgFallback, MsgTransport}

C8_FailureYieldsErrorPhase ==
    [][\A k \in 1..Len(pending), f \in Failures :
          TranslateFail(k, f) =>
              /\ PhaseError'
              /\ error' # ""
              /\ IF f.kind = "http" /\ f.detail # ""
                 THEN error' = f.detail
                 ELSE error' \in GenericMessages]_vars

C8_Witness ==
    /\ PhaseError
    /\ error = MsgFallback
    /\ pending = <<>>

(* C9: exactly one phase holds: the session is never loading while an      *)
(* error message is set or a result is held.                               *)
C9_ExactlyOnePhase == loading => (error = "" /\ translation = Null)

(* C10: swapLanguages in phase Result exchanges the codes, moves the       *)
(* selected output into sourceText, clears the result and ends in Idle.    *)
C10_SwapInResultPhase ==
    [][(SwapLanguages /\ PhaseResult) =>
          /\ fromLang' = toLang
          /\ toLang' = fromLang
          /\ sourceText' = selectedAlternative
          /\ translation' = Null
          /\ PhaseIdle']_vars

C10_Witness ==
    /\ PhaseIdle
    /\ sourceText = Hi
    /\ fromLang = "en"
    /\ toLang = "tr"
    /\ selectedAlternative = EmptyText

(* C11: two swapLanguages calls in a row that start in phase Result        *)
(* restore the pair, leave in sourceText the output that was selected      *)
(* before the first call, and leave the result cleared.                    *)
C11_DoubleSwap ==
    [][(SwapLanguages /\ PhaseResult) =>
          LET twice == Swapped(SwapFields') IN
          /\ twice.fromLang = fromLang
          /\ twice.toLang = toLang
          /\ twice.sourceText = selectedAlternative
          /\ twice.translation = Null]_vars

C11_Witness ==
    /\ PhaseIdle
    /\ sourceText = Hi
    /\ fromLang = "tr"
    /\ toLang = "en"
    /\ selectedAlternative = EmptyText

(* C12: swapLanguages while no result is held exchanges the codes and      *)
(* changes nothing else.                                                   *)
C12_PureSwap ==
    [][(SwapLanguages /\ translation = Null) =>
          /\ fromLang' = toLang
          /\ toLang' = fromLang
          /\ UNCHANGED <<sourceText, translation, selectedAlternative,
                         error, loading, history>>]_vars

C12_Witness ==
    /\ translation = Null
    /\ languages = NoLanguages
    /\ sourceText = Merhaba
    /\ selectedAlternative = Hello
    /\ fromLang = "en"
    /\ toLang = "tr"

(* C13: a select sets the selected output to the text of the clicked card, *)
(* whatever was selected before, so of two selects the second one wins;    *)
(* it changes neither the result (the cards stay as they are), nor the     *)
(* history, the text, the pair, the loading flag or the error message.     *)
AltCards == IF CardsShown THEN 1..Len(translation.alternatives) ELSE {}

C13_SelectSetsOutputOnly ==
    [][/\ SelectMain =>
             /\ selectedAlternative' = translation.main_translation
             /\ UNCHANGED <<translation, history, sourceText, fromLang,
                            toLang, loading, error>>
       /\ \A k \in AltCards :
             SelectAlt(k) =>
                 /\ selectedAlternative' = translation.alternatives[k].translation
                 /\ UNCHANGED <<translation, history, sourceText, fromLang,
                                toLang, loading, error>>]_vars

C13_Witness ==
    /\ translation = Item1
    /\ selectedAlternative = Hi
    /\ error # ""

(* C14: the edits of the text and of the pair are possible in every phase  *)
(* (the pair among the codes of the loaded catalog), change only the text  *)
(* or the pair, and send nothing.                                          *)
C14_EditsChangeOnlyTheirField ==
    /\ [](\A t \in TypableTexts : ENABLED EditText(t))
    /\ [](\A c \in DOMAIN languages : ENABLED EditFrom(c) /\ ENABLED EditTo(c))
    /\ [][/\ \A t \in TypableTexts :
                EditText(t) =>
                    /\ sourceText' = t
                    /\ UNCHANGED <<fromLang, toLang, error, translation,
                                   selectedAlternative, loading, network>>
          /\ \A c \in Codes :
                EditFrom(c) =>
                    /\ fromLang' = c
                    /\ UNCHANGED <<sourceText, toLang, error, translation,
                                   selectedAlternative, loading, network>>
          /\ \A c \in Codes :
                EditTo(c) =>
                    /\ toLang' = c
                    /\ UNCHANGED <<sourceText, fromLang, error, translation,
                                   selectedAlternative, loading, network>>]_vars

C14_Witness ==
    /\ loading
    /\ error = MsgLanguages
    /\ sourceText = BlankText

Ages == {"new", "old"}

(* C15 as claimed: starting clearHistory empties the list at once, so it   *)
(* is empty whether the clear call then succeeds or fails.                 *)
C15_ClearEmptiesOnInitiation == [][ClearHistory => history' = <<>>]_vars

(* C15 as amended: starting clearHistory leaves the list as it is; the     *)
(* list is emptied when the clear call is answered, and is left unchanged  *)
(* when the call is rejected.                                              *)
C15_ClearEmptiesOnAnswer ==
    [][/\ ClearHistory => history' = history
       /\ ClearDone => history' = <<>>
       /\ ClearFail => history' = history]_vars

C15_Witness ==
    /\ clearPending = 0
    /\ histPending.old > 0
    /\ Len(history) > 0

(* C16 as claimed: after a failed history list call the list is empty and  *)
(* error, loading, result and selected output are unchanged.               *)
C16_ListFailureEmptiesHistory ==
    [][\A age \in Ages :
          FetchHistoryFail(age) =>
              /\ history' = <<>>
              /\ UNCHANGED <<error, loading, translation,
                             selectedAlternative>>]_vars

(* C16 as amended: a history list call that throws leaves the list as it   *)
(* was, and an answered one sets the list it carried (the empty list for   *)
(* an error response); neither changes error, loading, result or selected  *)
(* output.                                                                 *)
C16_ListFailureKeepsHistory ==
    [][/\ \A age \in Ages :
             FetchHistoryFail(age) =>
                 UNCHANGED <<history, error, loading, translation,
                             selectedAlternative>>
       /\ \A age \in Ages, list \in HistoryLists :
             FetchHistoryDone(age, list) =>
                 /\ history' = list
                 /\ UNCHANGED <<error, loading, translation,
                                selectedAlternative>>]_vars

C16_Witness ==
    /\ Len(history) > 0
    /\ HistInFlight = 0
    /\ translation \in Responses
    /\ pending = <<>>

Acceptable ==
    /\ Truthy(Trim(sourceText))
    /\ Length(sourceText) <= MaxChars
    /\ fromLang # toLang

CatalogFailed == languages = NoLanguages /\ ~langPending

C19_LoadingIffInFlight == loading <=> Len(pending) > 0

(* C20: in every reachable state that holds no result the selected output  *)
(* is empty.                                                               *)
C20_NoResultNoOutput == translation = Null => selectedAlternative = EmptyText

(* The output strings a result offers: its main translation and the        *)
(* translation of each of its alternatives.                                *)
Outputs(result) ==
    {result.main_translation} \cup
    {result.alternatives[k].translation : k \in 1..Len(result.alternatives)}

(* C21: in every reachable state that holds a result, the selected output  *)
(* is the main translation of that result or the translation of one of its *)
(* alternatives.                                                           *)
C21_OutputIsOfHeldResult ==
    translation # Null => selectedAlternative \in Outputs(translation)

C21_Witness ==
    /\ translation = Item1
    /\ selectedAlternative = Hi
    /\ Len(pending) > 0
    /\ prior = Item2

(* C22: once clearHistory has emptied the list, the response of a list     *)
(* request sent before that clear does not repopulate it.                  *)
C22_ClearedListStaysEmpty ==
    [][\A list \in HistoryLists :
          (histPending.emptied /\ FetchHistoryDone("old", list))
              => history' = <<>>]_vars

----------------------------------------------------------------------------
(* The translation request that has waited longest is answered or fails. *)
AnswerOldest ==
    \/ \E data \in Responses : TranslateSuccess(1, data)
    \/ \E f \in Failures : TranslateFail(1, f)

(* Every translation request is eventually answered or fails. *)
LiveSpec == Init /\ [][Next]_vars /\ WF_vars(AnswerOldest)

(* C23: if every translation request is eventually answered or fails,      *)
(* then whenever loading is set it eventually becomes false in a state     *)
(* that holds a result or an error message.                                *)
C23_LoadingEnds ==
    loading ~> (~loading /\ (translation # Null \/ error # ""))

C23_Witness ==
    /\ ~loading
    /\ pending = <<>>
    /\ error = MsgTransport
    /\ translation = Null
    /\ prior \in Responses

====
